---- MODULE Spec2Model ----
(***************************************************************************)
(* DocuChat AI: the upload widget (components/FileUpload.tsx), the         *)
(* application shell (App.tsx), the chat component (ChatInterface.tsx)     *)
(* and the Gemini service module (services/geminiService.ts).              *)
(*                                                                         *)
(* Strings are sequences of symbols.  A symbol is one character, except    *)
(* that a comma-free piece of text whose inside never matters (a MIME      *)
(* type, a data-URL header, a fixed message) is a single symbol.           *)
(***************************************************************************)
EXTENDS Integers, Sequences, FiniteSets, TLC

\* ------------------------------------------------------------------ bounds
MaxBatch == 2
MaxUploads == 2
MaxBack == 1
MaxCalls == 2
MaxChunks == 2
MaxResponse == 2
MaxClock == 1
MaxInput == 2
MaxSummaries == 2

\* --------------------------------------------------------------- constants
NULL == "null"
\* the value undefined where a string is expected: a reserved one-symbol text
UNDEFINED == <<"undefined">>
PDF == "application/pdf"
TXT == "text/plain"
SIZE_LIMIT == 20 * 1024 * 1024
\* the values of FileUpload's error state: null, or a message and the file it names
NO_ERROR == [msg |-> NULL, file |-> NULL]
ONLY_PDF == [msg |-> "Only PDF files are allowed.", file |-> NULL]
FAILED_TO_PROCESS == [msg |-> "Failed to process files. Please try again.", file |-> NULL]
COMMA == ","

\* `File "${file.name}" exceeds 20MB limit.`
ExceedsMessage(name) == [msg |-> "exceeds 20MB limit", file |-> name]

\* ------------------------------------------------------- strings (helpers)
RECURSIVE FirstIndexOf(_, _, _)
\* index of the first occurrence of symbol c in s at or after position i, 0 if none
FirstIndexOf(s, c, i) ==
  IF i > Len(s) THEN 0
  ELSE IF s[i] = c THEN i
  ELSE FirstIndexOf(s, c, i + 1)

RECURSIVE Split(_, _)
\* String.prototype.split(sep) for a one-character separator
Split(s, sep) ==
  LET i == FirstIndexOf(s, sep, 1)
  IN  IF i = 0 THEN <<s>>
      ELSE <<SubSeq(s, 1, i - 1)>> \o Split(SubSeq(s, i + 1, Len(s)), sep)

\* arr[k] of a JavaScript array (0-based), undefined past the end
At(arr, k) == IF k + 1 <= Len(arr) THEN arr[k + 1] ELSE UNDEFINED

\* JavaScript truthiness of a string-or-undefined value
Truthy(v) == v # UNDEFINED /\ v # <<>>

\* a || b
OrElse(a, b) == IF Truthy(a) THEN a ELSE b

\* ------------------------------------------------------------- the browser
\* the Files of the browser the user picks from (a File's bytes are known only
\* through its size): an empty PDF, a PDF of exactly the limit, an oversized PDF,
\* an oversized file of another type
Files ==
  { [name |-> "a.pdf", type |-> PDF, size |-> 0],
    [name |-> "b.pdf", type |-> PDF, size |-> SIZE_LIMIT],
    [name |-> "c.pdf", type |-> PDF, size |-> SIZE_LIMIT + 1],
    [name |-> "d.txt", type |-> TXT, size |-> SIZE_LIMIT + 1] }

RECURSIVE SeqsUpTo(_, _)
SeqsUpTo(S, n) ==
  IF n = 0 THEN {<<>>}
  ELSE LET shorter == SeqsUpTo(S, n - 1)
       IN  shorter \cup {Append(s, x) : s \in {t \in shorter : Len(t) = n - 1}, x \in S}

\* the FileList of a drop or of the file input: never empty when processFiles runs
Batches == SeqsUpTo(Files, MaxBatch) \ {<<>>}

\* the base64 text of the file's bytes: empty for an empty file
Base64Of(file) == IF file.size = 0 THEN <<>> ELSE <<"Q", "Q">>

\* FileReader.readAsDataURL: "data:<type>;base64," followed by the base64 text
ReadAsDataURL(file) == <<"data:" \o file.type \o ";base64", COMMA>> \o Base64Of(file)

\* ---------------------------------------------------------------- state
VARIABLES
  appState,       \* App: AppState.UPLOAD | AppState.CHAT
  currentFiles,   \* App: UploadedFile[]
  nSelect,        \* number of onFileSelect calls made so far (document sets installed)
  nBack,          \* number of confirmed handleBack calls
  upError,        \* FileUpload: error
  upLoading,      \* FileUpload: isLoading
  uploads,        \* processFiles invocations: the batch, how many files are read, the promise's state
  dropped,        \* the FileList the step just taken handed to processFiles, <<>> if it handed none
  chatSession,    \* geminiService: the module's chatSession, 0 for null, else the Chat's number
  nSessions,      \* number of Chats ai.chats.create has returned so far
  sessionLog,     \* per Chat, the messages dispatched through it, in order
  calls,          \* sendMessageStream invocations: fullResponse, the fragments, the promise's state
  messages,       \* ChatInterface: messages
  isLoading,      \* ChatInterface: isLoading
  streamingContent, \* ChatInterface: streamingContent
  now,            \* the clock Date.now() reads
  svcDelivered,   \* per call made by a caller of the service: the fragments its stream delivered
  svcObserved,    \* per call made by a caller of the service: the values its onChunk received
  summaryLog,     \* the generateContent requests generateSummary has made: their file parts
  summaries,      \* generateSummary invocations of the chat component: the promise's state
  isSummarizing,  \* ChatInterface: isSummarizing
  summaryContent  \* ChatInterface: summaryContent

vars == <<appState, currentFiles, nSelect, nBack, upError, upLoading, uploads, dropped,
          chatSession, nSessions, sessionLog, calls,
          messages, isLoading, streamingContent, now,
          svcDelivered, svcObserved, summaryLog,
          summaries, isSummarizing, summaryContent>>
summaryVars == <<summaries, isSummarizing, summaryContent>>
callerVars == <<svcDelivered, svcObserved, summaryLog>>
appVars == <<appState, currentFiles, nSelect, nBack>>
uploadVars == <<upError, upLoading, uploads>>
serviceVars == <<chatSession, nSessions, sessionLog, calls>>
chatVars == <<messages, isLoading, streamingContent>>

\* ----------------------------------------------------------- FileUpload
\* a validation that tests the size before the type
FileViolationSizeFirst(file) ==
  IF file.size > SIZE_LIMIT THEN ExceedsMessage(file.name)
  ELSE IF file.type # PDF THEN ONLY_PDF
  ELSE NO_ERROR

\* the validation loop's verdict on one file
FileViolation(file) ==
  IF file.type # PDF THEN ONLY_PDF
  ELSE IF file.size > SIZE_LIMIT THEN ExceedsMessage(file.name)
  ELSE NO_ERROR

RECURSIVE ValidateFrom(_, _)
\* the validation loop: the error of the first violating file, NO_ERROR if none
ValidateFrom(files, i) ==
  IF i > Len(files) THEN NO_ERROR
  ELSE IF FileViolation(files[i]) # NO_ERROR THEN FileViolation(files[i])
  ELSE ValidateFrom(files, i + 1)

\* a validation that looks at the first file only
ValidateFirstOnly(files) == IF Len(files) = 0 THEN NO_ERROR ELSE FileViolation(files[1])

\* the validation of a batch
Validate(files) == ValidateFrom(files, 1)

\* the UploadedFile a reader's onload resolves with
ToUploadedFile(file) ==
  [name |-> file.name, type |-> file.type, size |-> file.size, data |-> ReadAsDataURL(file)]

\* a value that lists the files last first
UploadedFilesReversed(files) ==
  [i \in 1..Len(files) |-> ToUploadedFile(files[Len(files) + 1 - i])]

\* Promise.all's value: one UploadedFile per file, in batch order
UploadedFilesOf(files) == [i \in 1..Len(files) |-> ToUploadedFile(files[i])]

\* App.handleFileSelect; the FileUpload instance unmounts when the state leaves UPLOAD
HandleFileSelect(files) ==
  /\ currentFiles' = files
  /\ appState' = "CHAT"
  /\ nSelect' = nSelect + 1
  /\ UNCHANGED nBack

\* a state update of a FileUpload instance reaches it only while it is mounted
Mounted(u) == uploads[u].attached /\ appState = "UPLOAD"

\* a settled processFiles invocation holds nothing any more
Settled(how) == [files |-> <<>>, loaded |-> 0, state |-> how, attached |-> FALSE]

Detach(us) == [u \in DOMAIN us |-> [us[u] EXCEPT !.attached = FALSE]]

\* processFiles up to its await: setError(null), validation, the readers started
ProcessFiles(fileList) ==
  /\ appState = "UPLOAD"
  /\ Len(uploads) < MaxUploads
  /\ dropped' = fileList
  /\ IF Len(fileList) = 0
     THEN upError' = NO_ERROR /\ UNCHANGED <<upLoading, uploads>>
     ELSE IF Validate(fileList) # NO_ERROR
     THEN upError' = Validate(fileList) /\ UNCHANGED <<upLoading, uploads>>
     ELSE /\ upError' = NO_ERROR
          /\ upLoading' = TRUE
          /\ uploads' = Append(uploads, [files |-> fileList, loaded |-> 0,
                                         state |-> "pending", attached |-> TRUE])
  /\ UNCHANGED <<appVars, serviceVars, chatVars, now, callerVars, summaryVars>>

\* handleDrop / handleFileChange
HandleDrop ==
  \E fileList \in Batches : Len(fileList) > 0 /\ ProcessFiles(fileList)

\* reader.onload of one more file of upload u (the readers finish in any order, and
\* which one finished changes nothing); with the last one Promise.all resolves and
\* processFiles resumes: onFileSelect(uploadedFiles), finally setIsLoading(false)
ReaderOnLoad(u) ==
  /\ uploads[u].state = "pending"
  /\ dropped' = <<>>
  /\ IF uploads[u].loaded + 1 = Len(uploads[u].files)
     THEN /\ HandleFileSelect(UploadedFilesOf(uploads[u].files))
          /\ uploads' = Detach([uploads EXCEPT ![u] = Settled("resolved")])
          /\ upError' = NO_ERROR
          /\ upLoading' = FALSE
     ELSE /\ uploads' = [uploads EXCEPT ![u].loaded = @ + 1]
          /\ UNCHANGED <<upError, upLoading>>
          /\ UNCHANGED appVars
  /\ UNCHANGED <<serviceVars, chatVars, now, callerVars, summaryVars>>

\* a failure handler that hands over the files read so far
ReaderOnErrorSelectsRead(u) ==
  /\ uploads[u].state = "pending"
  /\ dropped' = <<>>
  /\ HandleFileSelect(UploadedFilesOf(SubSeq(uploads[u].files, 1, uploads[u].loaded)))
  /\ uploads' = Detach([uploads EXCEPT ![u] = Settled("rejected")])
  /\ IF Mounted(u)
     THEN upError' = FAILED_TO_PROCESS /\ upLoading' = FALSE
     ELSE UNCHANGED <<upError, upLoading>>
  /\ UNCHANGED <<serviceVars, chatVars, now, callerVars, summaryVars>>

\* reader.onerror of a file of upload u not read yet: Promise.all rejects, the catch
\* and finally run
ReaderOnError(u) ==
  /\ uploads[u].state = "pending"
  /\ dropped' = <<>>
  /\ uploads' = [uploads EXCEPT ![u] = Settled("rejected")]
  /\ IF Mounted(u)
     THEN upError' = FAILED_TO_PROCESS /\ upLoading' = FALSE
     ELSE UNCHANGED <<upError, upLoading>>
  /\ UNCHANGED <<appVars, serviceVars, chatVars, now, callerVars, summaryVars>>

\* ---------------------------------------------------------- geminiService
\* the files argument of sendMessageStream: UploadedFile[] | null
NullFiles == [isNull |-> TRUE, list |-> <<>>]
SomeFiles(list) == [isNull |-> FALSE, list |-> list]

\* sendMessageStream's inlineData part of one file: file.data.split(',')[1] || file.data
InlineData(file) ==
  [data |-> OrElse(At(Split(file.data, COMMA), 1), file.data), mimeType |-> file.type]

\* sendMessageStream's fileParts
FileParts(files) == [i \in 1..Len(files) |-> InlineData(files[i])]

\* generateSummary's inlineData part of one file
SummaryInlineData(file) ==
  [data |-> OrElse(At(Split(file.data, COMMA), 1), file.data), mimeType |-> file.type]

\* generateSummary's fileParts
SummaryFileParts(files) == [i \in 1..Len(files) |-> SummaryInlineData(files[i])]

\* the file parts of the message sendMessageStream dispatches: if (files && files.length > 0)
MessageFileParts(files) ==
  IF ~files.isNull /\ Len(files.list) > 0 THEN FileParts(files.list) ELSE <<>>

\* an ensure step that initializes whether or not a session exists
NeedsInitializeAlways(session) == TRUE

\* if (!chatSession) initializeChat(): the ensure step at the start of sendMessageStream
NeedsInitialize(session) == session = 0

\* initializeChat: chatSession = ai.chats.create(...), which returns a new Chat or throws
InitializeChat(createOk) ==
  IF createOk
  THEN /\ nSessions' = nSessions + 1
       /\ chatSession' = nSessions + 1
       /\ sessionLog' = Append(sessionLog, <<>>)
  ELSE UNCHANGED <<chatSession, nSessions, sessionLog>>

\* a loop body that assigns the fragment instead of appending it
AccumulateAssigned(fullResponse, chunkText) ==
  IF Truthy(chunkText) THEN chunkText ELSE fullResponse

\* the loop body's new fullResponse: if (chunkText) fullResponse += chunkText
Accumulate(fullResponse, chunkText) ==
  IF Truthy(chunkText) THEN fullResponse \o chunkText ELSE fullResponse

\* a loop body that calls onChunk outside the test of the fragment's text
CallsOnChunkAlways(chunkText, hasOnChunk) == hasOnChunk

\* whether the loop body calls onChunk: if (chunkText) { ...; if (onChunk) onChunk(...) }
CallsOnChunk(chunkText, hasOnChunk) == Truthy(chunkText) /\ hasOnChunk

\* sendMessageStream up to its first await: the session ensured, the message dispatched.
\* owner says on whose behalf the call is made (the document set, the number of returns
\* to the upload screen before it, whether a mounted component awaits it); the log keeps
\* the files argument beside the parts.
SendMessageStream(text, files, hasOnChunk, createOk, owner) ==
  /\ Len(calls) < MaxCalls
  /\ IF NeedsInitialize(chatSession) /\ ~createOk
     THEN \* initializeChat throws: the promise rejects, nothing is dispatched
          /\ calls' = Append(calls, [session |-> 0, state |-> "thrown", fullResponse |-> <<>>,
                                     hasOnChunk |-> hasOnChunk, attached |-> FALSE])
          /\ UNCHANGED <<chatSession, nSessions, sessionLog>>
     ELSE LET created == NeedsInitialize(chatSession)
              session == IF created THEN nSessions + 1 ELSE chatSession
              log == IF created THEN Append(sessionLog, <<>>) ELSE sessionLog
              message == [files |-> MessageFileParts(files), text |-> text,
                          given |-> files, doc |-> owner.doc, era |-> owner.era,
                          call |-> Len(calls) + 1]
          IN  /\ chatSession' = session
              /\ nSessions' = IF created THEN nSessions + 1 ELSE nSessions
              /\ sessionLog' = [log EXCEPT ![session] = Append(@, message)]
              /\ calls' = Append(calls, [session |-> session, state |-> "streaming",
                                         fullResponse |-> <<>>, hasOnChunk |-> hasOnChunk,
                                         attached |-> owner.attached])

\* one turn of the for-await loop of call c: the stream delivers a fragment
StreamChunk(c, chunkText) ==
  /\ calls[c].state = "streaming"
  /\ calls' = [calls EXCEPT ![c].fullResponse = Accumulate(@, chunkText)]
  /\ UNCHANGED <<chatSession, nSessions, sessionLog>>

\* the stream of call c ends: return fullResponse
StreamEnd(c) ==
  /\ calls[c].state = "streaming"
  /\ calls' = [calls EXCEPT ![c].state = "returned", ![c].attached = FALSE]
  /\ UNCHANGED <<chatSession, nSessions, sessionLog>>

\* the request or the stream of call c fails: catch, console.error, throw error;
\* fullResponse, kept here as it was, is not returned
StreamError(c) ==
  /\ calls[c].state = "streaming"
  /\ calls' = [calls EXCEPT ![c].state = "thrown", ![c].attached = FALSE]
  /\ UNCHANGED <<chatSession, nSessions, sessionLog>>

\* --------------------------------------------------------- ChatInterface
ERROR_TEXT == <<"I'm sorry, I encountered an error while processing your request. Please try again.">>

\* what the user may have typed into the input
InputValues == SeqsUpTo({" ", "q"}, MaxInput)

\* the texts of the fragments of a stream in the whole application's specification
AppChunkTexts == {<<>>, <<"H">>}

RECURSIVE TrimStart(_)
TrimStart(s) == IF Len(s) > 0 /\ s[1] = " " THEN TrimStart(Tail(s)) ELSE s

RECURSIVE TrimEnd(_)
TrimEnd(s) == IF Len(s) > 0 /\ s[Len(s)] = " " THEN TrimEnd(SubSeq(s, 1, Len(s) - 1)) ELSE s

\* String.prototype.trim
Trim(s) == TrimEnd(TrimStart(s))

UserMessage(text, clock) ==
  [id |-> clock, role |-> "user", text |-> text, timestamp |-> clock, isError |-> FALSE]

ModelMessage(text, clock) ==
  [id |-> clock + 1, role |-> "model", text |-> text, timestamp |-> clock, isError |-> FALSE]

ErrorMessage(clock) ==
  [id |-> clock + 1, role |-> "model", text |-> ERROR_TEXT, timestamp |-> clock, isError |-> TRUE]

\* const isFirstMessage = messages.length === 0
IsFirstMessage(msgs) == Len(msgs) = 0

\* the files argument handleSendMessage passes: isFirstMessage ? files : null
FilesArgument(msgs, files) == IF IsFirstMessage(msgs) THEN SomeFiles(files) ELSE NullFiles

\* the guard of handleSendMessage: if (!inputValue.trim() || isLoading) return
SendGuard(inputValue, loading) == Truthy(Trim(inputValue)) /\ ~loading

\* a send that starts the turn list afresh: setMessages([userMessage])
SendMessageAfresh(inputValue, createOk) ==
  /\ appState = "CHAT"
  /\ SendGuard(inputValue, isLoading)
  /\ SendMessageStream(Trim(inputValue), FilesArgument(messages, currentFiles), TRUE,
                       createOk, [doc |-> nSelect, era |-> nBack, attached |-> TRUE])
  /\ IF NeedsInitialize(chatSession) /\ ~createOk
     THEN /\ messages' = <<UserMessage(Trim(inputValue), now), ErrorMessage(now)>>
          /\ isLoading' = FALSE
     ELSE /\ messages' = <<UserMessage(Trim(inputValue), now)>>
          /\ isLoading' = TRUE
  /\ streamingContent' = <<>>
  /\ dropped' = <<>>
  /\ UNCHANGED <<appVars, uploadVars, now, summaryVars>>

\* handleSendMessage up to its await.  When sendMessageStream rejects at once (no
\* session could be made), the catch and finally run before any other event.
SendMessage(inputValue, createOk) ==
  /\ appState = "CHAT"
  /\ SendGuard(inputValue, isLoading)
  /\ SendMessageStream(Trim(inputValue), FilesArgument(messages, currentFiles), TRUE,
                       createOk, [doc |-> nSelect, era |-> nBack, attached |-> TRUE])
  /\ IF NeedsInitialize(chatSession) /\ ~createOk
     THEN /\ messages' = messages \o <<UserMessage(Trim(inputValue), now), ErrorMessage(now)>>
          /\ isLoading' = FALSE
     ELSE /\ messages' = Append(messages, UserMessage(Trim(inputValue), now))
          /\ isLoading' = TRUE
  /\ streamingContent' = <<>>
  /\ dropped' = <<>>
  /\ UNCHANGED <<appVars, uploadVars, now, summaryVars>>

HandleSendMessage(inputValue, createOk) ==
  /\ SendMessage(inputValue, createOk)
  /\ UNCHANGED callerVars

\* handleSendMessage, the fragments of its call and the values of its onChunk recorded
HandleSendMessageRecorded(inputValue, createOk) ==
  /\ SendMessage(inputValue, createOk)
  /\ svcDelivered' = Append(svcDelivered, <<>>)
  /\ svcObserved' = Append(svcObserved, <<>>)
  /\ UNCHANGED summaryLog

\* a callback that appends what it is given to what is shown
SetStreamingContentAppended(shown, chunk) == shown \o chunk

\* the onChunk handleSendMessage passes: (chunk) => { setStreamingContent(chunk) }
SetStreamingContent(shown, chunk) == chunk

\* a fragment arrives for call c; onChunk's state update reaches the component only
\* while it is mounted
ChunkArrives(c, chunkText) ==
  /\ Len(calls[c].fullResponse) + Len(chunkText) <= MaxResponse
  /\ StreamChunk(c, chunkText)
  /\ IF calls[c].attached /\ CallsOnChunk(chunkText, calls[c].hasOnChunk)
     THEN streamingContent' =
            SetStreamingContent(streamingContent, Accumulate(calls[c].fullResponse, chunkText))
     ELSE UNCHANGED streamingContent
  /\ dropped' = <<>>
  /\ UNCHANGED <<messages, isLoading, appVars, uploadVars, now, summaryVars>>

OnChunk(c, chunkText) ==
  /\ ChunkArrives(c, chunkText)
  /\ UNCHANGED callerVars

\* a fragment arrives for call c, recorded with the value its onChunk receives
OnChunkRecorded(c, chunkText) ==
  /\ Len(svcDelivered[c]) < MaxChunks
  /\ ChunkArrives(c, chunkText)
  /\ svcDelivered' = [svcDelivered EXCEPT ![c] = Append(@, chunkText)]
  /\ svcObserved' =
       IF CallsOnChunk(chunkText, calls[c].hasOnChunk)
       THEN [svcObserved EXCEPT ![c] = Append(@, Accumulate(calls[c].fullResponse, chunkText))]
       ELSE svcObserved
  /\ UNCHANGED summaryLog

\* a completion that appends the turn and leaves the pending flag set
OnResponseStaysLoading(c) ==
  /\ StreamEnd(c)
  /\ IF calls[c].attached
     THEN /\ messages' = Append(messages, ModelMessage(calls[c].fullResponse, now))
          /\ UNCHANGED <<isLoading, streamingContent>>
     ELSE UNCHANGED chatVars
  /\ dropped' = <<>>
  /\ UNCHANGED <<appVars, uploadVars, now, callerVars, summaryVars>>

\* sendMessageStream of call c returns: the model turn, then finally
OnResponse(c) ==
  /\ StreamEnd(c)
  /\ IF calls[c].attached
     THEN /\ messages' = Append(messages, ModelMessage(calls[c].fullResponse, now))
          /\ isLoading' = FALSE
          /\ streamingContent' = <<>>
     ELSE UNCHANGED chatVars
  /\ dropped' = <<>>
  /\ UNCHANGED <<appVars, uploadVars, now, callerVars, summaryVars>>

\* a failure handler that shows what was streamed as the turn
OnFailureKeepsPartial(c) ==
  /\ StreamError(c)
  /\ IF calls[c].attached
     THEN /\ messages' = Append(messages, ModelMessage(calls[c].fullResponse, now))
          /\ isLoading' = FALSE
          /\ streamingContent' = <<>>
     ELSE UNCHANGED chatVars
  /\ dropped' = <<>>
  /\ UNCHANGED <<appVars, uploadVars, now, callerVars, summaryVars>>

\* sendMessageStream of call c throws: the error turn, then finally
OnFailure(c) ==
  /\ StreamError(c)
  /\ IF calls[c].attached
     THEN /\ messages' = Append(messages, ErrorMessage(now))
          /\ isLoading' = FALSE
          /\ streamingContent' = <<>>
     ELSE UNCHANGED chatVars
  /\ dropped' = <<>>
  /\ UNCHANGED <<appVars, uploadVars, now, callerVars, summaryVars>>

\* generateSummary's own text when the response carries none
SUMMARY_FALLBACK == <<"I was unable to generate a summary for these documents.">>

\* the text handleGenerateSummary's catch shows
SUMMARY_FAILED == <<"Failed to generate summary. Please check your connection and try again.">>

\* the texts a generateContent response may carry (response.text)
SummaryTexts == {<<>>, <<"S">>}

\* generateSummary's value: response.text || "I was unable to generate a summary ..."
SummaryResult(text) == OrElse(text, SUMMARY_FALLBACK)

\* the guard of handleGenerateSummary: if (isSummarizing) return
SummaryGuard(summarizing) == ~summarizing

\* handleGenerateSummary up to its await: generateSummary(files) builds the file parts
\* and makes its generateContent request
HandleGenerateSummary ==
  /\ appState = "CHAT"
  /\ SummaryGuard(isSummarizing)
  /\ Len(summaries) < MaxSummaries
  /\ isSummarizing' = TRUE
  /\ summaryLog' = Append(summaryLog, [files |-> SummaryFileParts(currentFiles),
                                       given |-> currentFiles])
  /\ summaries' = Append(summaries, [state |-> "pending", attached |-> TRUE])
  /\ dropped' = <<>>
  /\ UNCHANGED <<summaryContent, svcDelivered, svcObserved,
                 appVars, uploadVars, serviceVars, chatVars, now>>

\* generateSummary of request r returns: setSummaryContent(summary), then finally
OnSummary(r, text) ==
  /\ summaries[r].state = "pending"
  /\ summaries' = [summaries EXCEPT ![r].state = "resolved", ![r].attached = FALSE]
  /\ IF summaries[r].attached
     THEN summaryContent' = SummaryResult(text) /\ isSummarizing' = FALSE
     ELSE UNCHANGED <<summaryContent, isSummarizing>>
  /\ dropped' = <<>>
  /\ UNCHANGED <<appVars, uploadVars, serviceVars, chatVars, now, callerVars>>

\* a failure handler that reports the failure as a turn of the conversation
OnSummaryFailureAsTurn(r) ==
  /\ summaries[r].state = "pending"
  /\ summaries' = [summaries EXCEPT ![r].state = "rejected", ![r].attached = FALSE]
  /\ IF summaries[r].attached
     THEN /\ messages' = Append(messages, ErrorMessage(now))
          /\ isSummarizing' = FALSE
          /\ UNCHANGED summaryContent
     ELSE UNCHANGED <<summaryContent, isSummarizing, messages>>
  /\ dropped' = <<>>
  /\ UNCHANGED <<appVars, uploadVars, serviceVars, isLoading, streamingContent, now, callerVars>>

\* generateSummary of request r throws: the catch sets the failure text, then finally
OnSummaryFailure(r) ==
  /\ summaries[r].state = "pending"
  /\ summaries' = [summaries EXCEPT ![r].state = "rejected", ![r].attached = FALSE]
  /\ IF summaries[r].attached
     THEN summaryContent' = SUMMARY_FAILED /\ isSummarizing' = FALSE
     ELSE UNCHANGED <<summaryContent, isSummarizing>>
  /\ dropped' = <<>>
  /\ UNCHANGED <<appVars, uploadVars, serviceVars, chatVars, now, callerVars>>

\* time passes
Tick ==
  /\ now < MaxClock
  /\ now' = now + 1
  /\ dropped' = <<>>
  /\ UNCHANGED <<appVars, uploadVars, serviceVars, chatVars, callerVars, summaryVars>>

\* ------------------------------------------------------------------- App
DetachCalls(cs) == [c \in DOMAIN cs |-> [cs[c] EXCEPT !.attached = FALSE]]
DetachSummaries(ss) == [r \in DOMAIN ss |-> [ss[r] EXCEPT !.attached = FALSE]]

\* handleBack, the user confirming or not; leaving CHAT unmounts the ChatInterface
\* instance, whose state is gone and whose pending calls nobody awaits any more
HandleBack ==
  /\ appState = "CHAT"
  /\ nBack < MaxBack
  /\ \E confirmed \in BOOLEAN :
       IF confirmed
       THEN /\ appState' = "UPLOAD"
            /\ currentFiles' = <<>>
            /\ nBack' = nBack + 1
            /\ messages' = <<>>
            /\ isLoading' = FALSE
            /\ streamingContent' = <<>>
            /\ calls' = DetachCalls(calls)
            /\ summaries' = DetachSummaries(summaries)
            /\ isSummarizing' = FALSE
            /\ summaryContent' = <<>>
            /\ UNCHANGED nSelect
       ELSE UNCHANGED <<appVars, chatVars, calls, summaryVars>>
  /\ dropped' = <<>>
  /\ UNCHANGED <<uploadVars, chatSession, nSessions, sessionLog, now, callerVars>>

\* ------------------------------------------- a caller of geminiService
\* the encoded data of an UploadedFile: base64 text, with or without a data-URL header
DATA_HEADER == "data:application/pdf;base64"
Base64Texts == SeqsUpTo({"Q"}, 1)
DataValues == Base64Texts \cup {<<DATA_HEADER, COMMA>> \o b : b \in Base64Texts}
CallerFiles == {[name |-> "a.pdf", type |-> PDF, size |-> Len(d), data |-> d] : d \in DataValues}
CallerFileLists == SeqsUpTo(CallerFiles, MaxBatch)
CallerArguments == {NullFiles} \cup {SomeFiles(l) : l \in CallerFileLists}

\* the files arguments where only their presence matters
PlainArguments ==
  {NullFiles,
   SomeFiles(<<[name |-> "a.pdf", type |-> PDF, size |-> 1, data |-> <<DATA_HEADER, COMMA, "Q">>]>>)}

\* the texts a stream's fragment may carry (chunk.text): empty, or text of which one
\* may extend another
ChunkTexts == {<<>>, <<"H">>, <<"H", "W">>}

NoOwner == [doc |-> 0, era |-> 0, attached |-> FALSE]

\* a direct call of the exported initializeChat
CallInitializeChat ==
  /\ nSessions < MaxCalls
  /\ \E createOk \in BOOLEAN : InitializeChat(createOk)
  /\ UNCHANGED <<calls, appVars, uploadVars, dropped, chatVars, now, callerVars, summaryVars>>

\* a call of sendMessageStream without onChunk, whatever other calls are pending
CallSendMessageStream ==
  /\ \E files \in PlainArguments, createOk \in BOOLEAN :
       SendMessageStream(<<"q">>, files, FALSE, createOk, NoOwner)
  /\ UNCHANGED <<appVars, uploadVars, dropped, chatVars, now, callerVars, summaryVars>>

\* the one call of sendMessageStream whose fragments and onChunk values are recorded
CallRecorded ==
  /\ calls = <<>>
  /\ \E files \in CallerArguments, hasOnChunk \in BOOLEAN, createOk \in BOOLEAN :
       SendMessageStream(<<"q">>, files, hasOnChunk, createOk, NoOwner)
  /\ svcDelivered' = <<<<>>>>
  /\ svcObserved' = <<<<>>>>
  /\ UNCHANGED <<appVars, uploadVars, dropped, chatVars, now, summaryLog, summaryVars>>

\* the stream of call c delivers a fragment
CallChunk(c) ==
  /\ \E chunkText \in ChunkTexts :
       /\ IF c \in DOMAIN svcDelivered
          THEN Len(svcDelivered[c]) < MaxChunks
          ELSE chunkText \in AppChunkTexts
               /\ Len(calls[c].fullResponse) + Len(chunkText) <= MaxResponse
       /\ StreamChunk(c, chunkText)
       /\ IF c \in DOMAIN svcDelivered
          THEN /\ svcDelivered' = [svcDelivered EXCEPT ![c] = Append(@, chunkText)]
               /\ svcObserved' =
                    IF CallsOnChunk(chunkText, calls[c].hasOnChunk)
                    THEN [svcObserved EXCEPT
                            ![c] = Append(@, Accumulate(calls[c].fullResponse, chunkText))]
                    ELSE svcObserved
          ELSE UNCHANGED <<svcDelivered, svcObserved>>
  /\ UNCHANGED <<appVars, uploadVars, dropped, chatVars, now, summaryLog, summaryVars>>

CallEnd(c) ==
  /\ StreamEnd(c)
  /\ UNCHANGED <<appVars, uploadVars, dropped, chatVars, now, callerVars, summaryVars>>

CallError(c) ==
  /\ StreamError(c)
  /\ UNCHANGED <<appVars, uploadVars, dropped, chatVars, now, callerVars, summaryVars>>

\* the one call of generateSummary whose request is recorded, up to its await
CallGenerateSummary ==
  /\ summaryLog = <<>>
  /\ \E files \in CallerFileLists :
       summaryLog' = Append(summaryLog, [files |-> SummaryFileParts(files), given |-> files])
  /\ UNCHANGED <<appVars, uploadVars, dropped, chatVars, now, serviceVars,
                 svcDelivered, svcObserved, summaryVars>>

\* ------------------------------------------------------- specifications
Init ==
  /\ appState = "UPLOAD"
  /\ currentFiles = <<>>
  /\ nSelect = 0
  /\ nBack = 0
  /\ upError = NO_ERROR
  /\ upLoading = FALSE
  /\ uploads = <<>>
  /\ dropped = <<>>
  /\ chatSession = 0
  /\ nSessions = 0
  /\ sessionLog = <<>>
  /\ calls = <<>>
  /\ messages = <<>>
  /\ isLoading = FALSE
  /\ streamingContent = <<>>
  /\ now = 0
  /\ svcDelivered = <<>>
  /\ svcObserved = <<>>
  /\ summaryLog = <<>>
  /\ summaries = <<>>
  /\ isSummarizing = FALSE
  /\ summaryContent = <<>>

\* the upload widget and the application shell, any batch dropped
NextUpload ==
  \/ HandleDrop
  \/ \E u \in DOMAIN uploads : ReaderOnLoad(u)
  \/ \E u \in DOMAIN uploads : ReaderOnError(u)
  \/ HandleBack

SpecUpload == Init /\ [][NextUpload]_vars

\* the service module's session, its functions called by any caller in any order
NextService ==
  \/ CallInitializeChat
  \/ CallSendMessageStream
  \/ \E c \in DOMAIN calls : CallChunk(c)
  \/ \E c \in DOMAIN calls : CallEnd(c)
  \/ \E c \in DOMAIN calls : CallError(c)

SpecService == Init /\ [][NextService]_vars

\* one call of sendMessageStream followed from its arguments to its result, and the
\* requests of generateSummary: what is sent, what onChunk receives, what is returned
NextCall ==
  \/ CallRecorded
  \/ \E c \in DOMAIN calls : CallChunk(c)
  \/ \E c \in DOMAIN calls : CallEnd(c)
  \/ \E c \in DOMAIN calls : CallError(c)
  \/ CallGenerateSummary

SpecCall == Init /\ [][NextCall]_vars

\* the batches dropped in the whole application's specification: valid ones
ChatBatches ==
  { <<[name |-> "a.pdf", type |-> PDF, size |-> 0]>>,
    <<[name |-> "b.pdf", type |-> PDF, size |-> SIZE_LIMIT],
      [name |-> "a.pdf", type |-> PDF, size |-> 0]>> }

HandleDropValid ==
  \E fileList \in ChatBatches : ProcessFiles(fileList)

\* the whole application
Next ==
  \/ HandleDropValid
  \/ \E u \in DOMAIN uploads : ReaderOnLoad(u)
  \/ \E u \in DOMAIN uploads : ReaderOnError(u)
  \/ HandleBack
  \/ \E inputValue \in InputValues, createOk \in BOOLEAN : HandleSendMessage(inputValue, createOk)
  \/ \E c \in DOMAIN calls, chunkText \in AppChunkTexts : OnChunk(c, chunkText)
  \/ \E c \in DOMAIN calls : OnResponse(c)
  \/ \E c \in DOMAIN calls : OnFailure(c)
  \/ Tick

Spec == Init /\ [][Next]_vars

\* the remote stream of call c completes or fails
StreamSettles(c) == c \in DOMAIN calls /\ (OnResponse(c) \/ OnFailure(c))

\* the whole application, every remote stream completing or failing in the end
SpecLive == Init /\ [][Next]_vars /\ \A c \in 1..MaxCalls : WF_vars(StreamSettles(c))

\* the chat component with its summary surface: sends and summary requests together
NextSummary ==
  \/ HandleDropValid
  \/ \E u \in DOMAIN uploads : ReaderOnLoad(u)
  \/ HandleBack
  \/ \E inputValue \in InputValues, createOk \in BOOLEAN : HandleSendMessage(inputValue, createOk)
  \/ \E c \in DOMAIN calls, chunkText \in AppChunkTexts : OnChunk(c, chunkText)
  \/ \E c \in DOMAIN calls : OnResponse(c)
  \/ \E c \in DOMAIN calls : OnFailure(c)
  \/ HandleGenerateSummary
  \/ \E r \in DOMAIN summaries, text \in SummaryTexts : OnSummary(r, text)
  \/ \E r \in DOMAIN summaries : OnSummaryFailure(r)

SpecSummary == Init /\ [][NextSummary]_vars

\* the conversation with every stream's fragments recorded
NextStream ==
  \/ HandleDropValid
  \/ \E u \in DOMAIN uploads : ReaderOnLoad(u)
  \/ HandleBack
  \/ \E inputValue \in InputValues, createOk \in BOOLEAN :
       HandleSendMessageRecorded(inputValue, createOk)
  \/ \E c \in DOMAIN calls, chunkText \in AppChunkTexts : OnChunkRecorded(c, chunkText)
  \/ \E c \in DOMAIN calls : OnResponse(c)
  \/ \E c \in DOMAIN calls : OnFailure(c)

SpecStream == Init /\ [][NextStream]_vars
\* ----------------------------------------------------------------- claims
\* helpers of the claims' formulas
IsOversized(file) == file.size > 20 * 1024 * 1024
IsPdf(file) == file.type = "application/pdf"
Violates(file) == ~IsPdf(file) \/ IsOversized(file)

\* the position of the first file of a batch that violates a constraint
FirstViolating(files) ==
  CHOOSE i \in 1..Len(files) :
    Violates(files[i]) /\ \A j \in 1..(i - 1) : ~Violates(files[j])

\* C7: batch validation is atomic.  A step that hands processFiles a batch holding a
\* file, at any position, whose type is not application/pdf sets an error, starts no
\* reader (no file is read or encoded) and does not call onFileSelect.
C7_AtomicValidation ==
  [][(dropped' # <<>> /\ \E i \in 1..Len(dropped') : ~IsPdf(dropped'[i]))
       => /\ upError' # NO_ERROR
          /\ uploads' = uploads
          /\ upLoading' = upLoading
          /\ nSelect' = nSelect
          /\ currentFiles' = currentFiles
          /\ appState' = appState]_vars

\* C7 witness: a batch whose second file is not a PDF, after a valid first one, was rejected
C7_Witness ==
  /\ Len(dropped) = 2
  /\ ~Violates(dropped[1])
  /\ ~IsPdf(dropped[2])
  /\ upError = ONLY_PDF
  /\ uploads = <<>>
  /\ nSelect = 0

\* C8 as stated: if any file of the batch is oversized, the batch is rejected and the
\* failure names that oversized file, whatever its position and the other files.
C8_NamesEveryOversizedFile ==
  dropped # <<>> =>
    \A i \in 1..Len(dropped) :
      IsOversized(dropped[i]) => upError = ExceedsMessage(dropped[i].name)

\* C8 amended: if any file of the batch is oversized, the batch is rejected (an error
\* is set, no reader starts, onFileSelect is not called) and the failure is that of the
\* first violating file in batch order: "Only PDF files are allowed." when that file is
\* not a PDF, else the message naming it, which it is oversized.
C8_NamesFirstViolation ==
  [][(dropped' # <<>> /\ \E i \in 1..Len(dropped') : IsOversized(dropped'[i]))
       => LET first == dropped'[FirstViolating(dropped')]
          IN  /\ upError' = IF IsPdf(first) THEN ExceedsMessage(first.name) ELSE ONLY_PDF
              /\ IsPdf(first) => IsOversized(first)
              /\ uploads' = uploads
              /\ nSelect' = nSelect
              /\ appState' = appState]_vars

\* C8 witness: an oversized file after a valid one was rejected by name
C8_Witness ==
  /\ Len(dropped) = 2
  /\ ~Violates(dropped[1])
  /\ IsPdf(dropped[2]) /\ IsOversized(dropped[2])
  /\ upError = ExceedsMessage(dropped[2].name)
  /\ uploads = <<>>
RECURSIVE Concat(_)
\* the texts of a sequence joined in order
Concat(texts) == IF texts = <<>> THEN <<>> ELSE Head(texts) \o Concat(Tail(texts))

\* the running totals of a sequence of fragments: its first, its first two joined, ...
RunningTotals(fragments) ==
  [i \in 1..Len(fragments) |-> Concat(SubSeq(fragments, 1, i))]

HasText(fragment) == fragment # <<>>
IsPrefixOf(a, b) == Len(a) <= Len(b) /\ SubSeq(b, 1, Len(a)) = a

\* each fragment is the cumulative text so far, which grows
Cumulative(fragments) ==
  \A i \in 1..Len(fragments) :
    /\ HasText(fragments[i])
    /\ i > 1 => IsPrefixOf(fragments[i - 1], fragments[i]) /\ Len(fragments[i - 1]) < Len(fragments[i])

\* C4 as stated: when each fragment delivered is the cumulative text so far ("Hello",
\* "Hello world", "Hello world!"), onChunk observes exactly the fragments and the value
\* returned is the last fragment.
C4_CumulativeFragmentsObserved ==
  \A c \in DOMAIN svcDelivered :
    (calls[c].hasOnChunk /\ Cumulative(svcDelivered[c]))
      => /\ svcObserved[c] = svcDelivered[c]
         /\ (calls[c].state = "returned" /\ svcDelivered[c] # <<>>)
              => calls[c].fullResponse = svcDelivered[c][Len(svcDelivered[c])]

\* C4 amended: accumulation is order-preserving by appending.  For fragments that all
\* carry text (the cumulative ones included) onChunk observes the running joins of the
\* fragments, in order, and the value returned is all the fragments joined.
C4_FragmentsAppended ==
  \A c \in DOMAIN svcDelivered :
    (calls[c].hasOnChunk /\ \A i \in 1..Len(svcDelivered[c]) : HasText(svcDelivered[c][i]))
      => /\ svcObserved[c] = RunningTotals(svcDelivered[c])
         /\ calls[c].state = "returned" => calls[c].fullResponse = Concat(svcDelivered[c])

\* C4 witness: the fragments "H", "HW" were delivered, onChunk saw "H", "HHW", and
\* "HHW" was returned
C4_Witness ==
  /\ DOMAIN svcDelivered = {1}
  /\ calls[1].hasOnChunk
  /\ calls[1].state = "returned"
  /\ svcDelivered[1] = << <<"H">>, <<"H", "W">> >>
  /\ svcObserved[1] = << <<"H">>, <<"H", "H", "W">> >>
  /\ calls[1].fullResponse = <<"H", "H", "W">>

\* C10 as stated: onChunk is invoked after every fragment the stream delivers, n times
\* for n fragments, and the complete text is returned.
C10_CallbackForEveryFragment ==
  \A c \in DOMAIN svcDelivered :
    /\ calls[c].hasOnChunk => Len(svcObserved[c]) = Len(svcDelivered[c])
    /\ calls[c].state = "returned" => calls[c].fullResponse = Concat(svcDelivered[c])

\* C10 amended: onChunk (when given) is invoked with the running total after every
\* fragment that carries text, and not for a fragment whose text is empty: its values
\* are the running totals of the fragments with text, in arrival order; the complete
\* assembled text is returned.
C10_CallbackForEveryTextFragment ==
  \A c \in DOMAIN svcDelivered :
    /\ svcObserved[c] = IF calls[c].hasOnChunk
                        THEN RunningTotals(SelectSeq(svcDelivered[c], HasText))
                        ELSE <<>>
    /\ calls[c].state = "returned" => calls[c].fullResponse = Concat(svcDelivered[c])

\* C10 witness: a stream of two fragments, the first without text, ended; onChunk was
\* invoked once
C10_Witness ==
  /\ DOMAIN svcDelivered = {1}
  /\ calls[1].hasOnChunk
  /\ calls[1].state = "returned"
  /\ svcDelivered[1] = << <<>>, <<"H">> >>
  /\ svcObserved[1] = << <<"H">> >>
  /\ calls[1].fullResponse = <<"H">>

\* the encoded data carries a data-URL header
HasHeader(data) == Len(data) >= 2 /\ data[1] = "data:application/pdf;base64" /\ data[2] = ","

\* the text after the first comma
AfterFirstComma(data) == SubSeq(data, FirstIndexOf(data, ",", 1) + 1, Len(data))

\* the data transmitted for each file given agrees with the claim
PayloadStripped(given, parts) ==
  \A i \in 1..Len(given) :
    HasHeader(given[i].data)
      => /\ Len(parts) = Len(given)
         /\ parts[i].data = AfterFirstComma(given[i].data)

\* C9: for every file whose data carries a data-URL header, the payload transmitted by
\* sendMessageStream and by generateSummary is exactly the text after the first comma
\* (the payload of the same base64 text given without a header), the empty text included.
C9_PayloadIsTextAfterComma ==
  /\ \A s \in DOMAIN sessionLog : \A m \in DOMAIN sessionLog[s] :
       PayloadStripped(sessionLog[s][m].given.list, sessionLog[s][m].files)
  /\ \A r \in DOMAIN summaryLog :
       PayloadStripped(summaryLog[r].given, summaryLog[r].files)
\* C6 as stated: an ensure call made when a session exists, be it initializeChat or the
\* ensure step of sendMessageStream, keeps the handle and creates no session.  Every
\* step of the service's callers is such a call or a stream event.
C6_EveryEnsureKeepsHandle ==
  [][chatSession # 0 => (chatSession' = chatSession /\ nSessions' = nSessions)]_vars

\* C6 amended: the ensure step at the start of sendMessageStream is a no-op when a
\* session exists: the call keeps the handle, creates no session and dispatches its
\* message through the existing one.  (initializeChat itself always replaces the handle.)
C6_SendKeepsHandle ==
  [][(Len(calls') = Len(calls) + 1 /\ chatSession # 0)
       => /\ chatSession' = chatSession
          /\ nSessions' = nSessions
          /\ calls'[Len(calls')].session = chatSession]_vars

\* C6 witness: two calls of sendMessageStream went through the one session ever made
C6_Witness ==
  /\ Len(calls) = 2
  /\ nSessions = 1
  /\ chatSession = 1
  /\ calls[1].session = 1 /\ calls[2].session = 1
  /\ Len(sessionLog[1]) = 2

\* C1: through any one session, only the first message dispatched carries file payloads.
C1_FilesOnFirstMessageOnly ==
  \A s \in DOMAIN sessionLog :
    \A m \in DOMAIN sessionLog[s] : m > 1 => sessionLog[s][m].files = <<>>

\* C2: once the user has returned to the upload screen, the sends for the next document
\* set go through another session: no session receives messages dispatched before and
\* after a return to upload.
C2_SessionAbandonedOnReturn ==
  \A s \in DOMAIN sessionLog :
    \A m, n \in DOMAIN sessionLog[s] : sessionLog[s][m].era = sessionLog[s][n].era

\* the calls of sendMessageStream that have neither completed nor failed
InFlight == {c \in DOMAIN calls : calls[c].state = "streaming"}

\* C3: at most one send is in flight, in every reachable state of the application.
C3_OneSendInFlight == Cardinality(InFlight) <= 1

\* C5: when a send awaited by the mounted component fails, partial text streamed or
\* not, exactly one turn is appended, the fixed failure message marked isError; the
\* list is otherwise unchanged (the partial text is in no turn), the streaming buffer
\* is cleared, and the pending flag is reset, so that the guard admits a further send.
C5_FailureDiscardsPartialText ==
  [][\A c \in DOMAIN calls :
       (calls[c].state = "streaming" /\ calls[c].attached /\ calls'[c].state = "thrown")
         => /\ Len(messages') = Len(messages) + 1
            /\ SubSeq(messages', 1, Len(messages)) = messages
            /\ messages'[Len(messages')].role = "model"
            /\ messages'[Len(messages')].isError
            /\ messages'[Len(messages')].text =
                 <<"I'm sorry, I encountered an error while processing your request. Please try again.">>
            /\ messages'[Len(messages')].text # calls[c].fullResponse
            /\ streamingContent' = <<>>
            /\ isLoading' = FALSE
            /\ SendGuard(<<"q">>, isLoading')]_vars

\* C5 witness: the only send so far, on a component never unmounted, failed after the
\* text "H" was streamed, and the turns are the user's and the failure message
C5_Witness ==
  /\ nBack = 0
  /\ appState = "CHAT"
  /\ Len(calls) = 1
  /\ calls[1].state = "thrown"
  /\ calls[1].fullResponse = <<"H">>
  /\ Len(messages) = 2
  /\ messages[1].role = "user"
  /\ messages[2].isError
  /\ streamingContent = <<>>
  /\ ~isLoading

\* the generateSummary requests that have neither returned nor thrown
SummariesPending == {r \in DOMAIN summaries : summaries[r].state = "pending"}

\* C11: generateSummary is independent of the conversation.  A step that starts a
\* summary request, and a step in which one returns or throws, leaves the session
\* handle, the sessions made, what they were sent, the sends and the turn list as they
\* were; when the request of the mounted component throws, the summary text becomes the
\* fixed summary-failure message, which is not that of a failed send, and the
\* summarizing flag is reset.
C11_SummaryLeavesConversation ==
  [][(\/ Len(summaries') > Len(summaries)
      \/ \E r \in DOMAIN summaries : summaries[r].state = "pending" /\ summaries'[r].state # "pending")
       => /\ chatSession' = chatSession
          /\ nSessions' = nSessions
          /\ sessionLog' = sessionLog
          /\ calls' = calls
          /\ messages' = messages
          /\ \A r \in DOMAIN summaries :
               (summaries[r].state = "pending" /\ summaries[r].attached
                  /\ summaries'[r].state = "rejected")
                 => /\ summaryContent' =
                         <<"Failed to generate summary. Please check your connection and try again.">>
                    /\ summaryContent' #
                         <<"I'm sorry, I encountered an error while processing your request. Please try again.">>
                    /\ isSummarizing' = FALSE]_vars

\* C11 witness: with a send in flight on the only session, the summary request of the
\* mounted component failed; the turn list holds the user's turn alone
C11_Witness ==
  /\ nBack = 0
  /\ Len(summaries) = 1
  /\ summaries[1].state = "rejected"
  /\ summaryContent = <<"Failed to generate summary. Please check your connection and try again.">>
  /\ ~isSummarizing
  /\ chatSession = 1
  /\ Len(calls) = 1 /\ calls[1].state = "streaming"
  /\ isLoading
  /\ Len(messages) = 1

\* C16: at most one summary request is outstanding, in every reachable state of the
\* application.
C16_OneSummaryOutstanding == Cardinality(SummariesPending) <= 1

Awaited(c) == c \in DOMAIN calls /\ calls[c].state = "streaming" /\ calls[c].attached

\* C13 as stated: every accepted send, made when the turn list had n - 1 turns,
\* eventually has the pending flag false and an assistant turn directly after its user
\* turn, the n-th.
C13_EverySendAnswered ==
  \A c \in 1..MaxCalls : \A n \in 1..(2 * MaxCalls) :
    (Awaited(c) /\ Len(messages) = n)
      ~> (/\ ~isLoading
          /\ Len(messages) > n
          /\ messages[n].role = "user"
          /\ messages[n + 1].role = "model")

\* C13 amended: every accepted send eventually leaves the awaiting-response state.
\* While its component stays mounted its user turn is the last turn, and the step in
\* which its stream completes or fails appends exactly one assistant turn (the answer or
\* the error turn) directly after it and resets the pending flag, so that a further
\* send is accepted.  The remote stream settling, every send is in the end either
\* answered so or discarded with its conversation by a return to the upload screen;
\* the pending flag always returns to false.
C13_SendAnsweredOrDiscarded ==
  /\ [][\A c \in DOMAIN calls :
          (calls[c].state = "streaming" /\ calls[c].attached /\ calls'[c].state # "streaming")
            => /\ isLoading
               /\ messages[Len(messages)].role = "user"
               /\ Len(messages') = Len(messages) + 1
               /\ SubSeq(messages', 1, Len(messages)) = messages
               /\ messages'[Len(messages')].role = "model"
               /\ isLoading' = FALSE
               /\ SendGuard(<<"q">>, isLoading')]_vars
  /\ \A c \in 1..MaxCalls : Awaited(c) ~> (c \in DOMAIN calls /\ ~calls[c].attached)
  /\ \A c \in 1..MaxCalls :
       (c \in DOMAIN calls /\ calls[c].state = "streaming")
         ~> (c \in DOMAIN calls /\ calls[c].state # "streaming")
  /\ isLoading ~> ~isLoading

\* C13 witness: the second send of a conversation was answered; four turns alternate
C13_Witness ==
  /\ nBack = 0
  /\ Len(calls) = 2
  /\ calls[1].state = "thrown" /\ calls[2].state = "returned"
  /\ ~isLoading
  /\ Len(messages) = 4
  /\ messages[3].role = "user"
  /\ messages[4].role = "model" /\ ~messages[4].isError

\* C14: when the reading of a file of a validated batch fails in the mounted upload
\* widget, whatever the number of its files already read, the batch is aborted as a
\* whole: onFileSelect is not called, the application stays in the upload state with an
\* empty file set and no conversation, the error "Failed to process files. Please try
\* again." is set and the loading flag is false.
C14_ReadFailureAbortsBatch ==
  [][\A u \in DOMAIN uploads :
       (uploads[u].state = "pending" /\ uploads[u].attached /\ appState = "UPLOAD"
          /\ uploads'[u].state = "rejected")
         => /\ nSelect' = nSelect
            /\ appState' = "UPLOAD"
            /\ currentFiles' = <<>>
            /\ messages' = <<>>
            /\ chatSession' = chatSession /\ sessionLog' = sessionLog
            /\ upError' = [msg |-> "Failed to process files. Please try again.", file |-> "null"]
            /\ upError' # NO_ERROR
            /\ upLoading' = FALSE]_vars

\* C14 witness: the first batch dropped failed to be read; no file set was ever installed
C14_Witness ==
  /\ Len(uploads) = 1
  /\ uploads[1].state = "rejected"
  /\ upError = [msg |-> "Failed to process files. Please try again.", file |-> "null"]
  /\ ~upLoading
  /\ appState = "UPLOAD"
  /\ currentFiles = <<>>
  /\ nSelect = 0

\* a batch of which every file is a PDF of at most 20 MiB
Acceptable(files) ==
  /\ files # <<>>
  /\ \A i \in 1..Len(files) :
       files[i].type = "application/pdf" /\ files[i].size <= 20 * 1024 * 1024

\* the UploadedFiles carry the files' names, types and sizes, in batch order
CarriesBatch(uploaded, files) ==
  /\ Len(uploaded) = Len(files)
  /\ \A i \in 1..Len(files) :
       /\ uploaded[i].name = files[i].name
       /\ uploaded[i].type = files[i].type
       /\ uploaded[i].size = files[i].size

\* C15: a non-empty batch of PDFs of at most 20 MiB each (exactly 20 MiB included) is
\* accepted: no error is set and its readers start.  onFileSelect is called for a batch
\* only in the step in which its last file has been read, with one UploadedFile per
\* file in batch order carrying the file's name, type and size, and the batch, settled
\* then, calls it no second time.
C15_ValidBatchAccepted ==
  /\ [][(dropped' # <<>> /\ Acceptable(dropped'))
          => /\ upError' = NO_ERROR
             /\ upLoading' = TRUE
             /\ Len(uploads') = Len(uploads) + 1
             /\ uploads'[Len(uploads')].files = dropped'
             /\ uploads'[Len(uploads')].state = "pending"
             /\ nSelect' = nSelect]_vars
  /\ [][nSelect' # nSelect
          => /\ nSelect' = nSelect + 1
             /\ \E u \in DOMAIN uploads :
                  /\ uploads[u].state = "pending"
                  /\ uploads[u].loaded + 1 = Len(uploads[u].files)
                  /\ uploads'[u].state = "resolved"
                  /\ CarriesBatch(currentFiles', uploads[u].files)]_vars
  /\ [][\A u \in DOMAIN uploads :
          uploads[u].state # "pending" => uploads'[u].state = uploads[u].state]_vars

\* C15 witness: the batch of a PDF of exactly 20 MiB and an empty PDF was accepted and
\* handed over in that order
C15_Witness ==
  /\ nSelect = 1
  /\ appState = "CHAT"
  /\ Len(uploads) = 1
  /\ uploads[1].state = "resolved"
  /\ Len(currentFiles) = 2
  /\ currentFiles[1].name = "b.pdf" /\ currentFiles[1].size = 20 * 1024 * 1024
  /\ currentFiles[2].name = "a.pdf" /\ currentFiles[2].size = 0

\* C17: the turn list of a conversation is append-only.  Every step short of the return
\* to the upload screen, which ends the conversation, leaves the list unchanged or
\* appends at its end, no turn before removed, reordered or changed: one turn, or the
\* user's turn and the failure turn together when the send is rejected before anything
\* is dispatched.  A step in which a fragment arrives leaves the list unchanged, and an
\* assistant turn is appended only in the step in which a send completes or fails.
C17_TurnListAppendOnly ==
  [][nBack' = nBack
       => /\ IsPrefixOf(messages, messages')
          /\ Len(messages') <= Len(messages) + 2
          /\ Len(messages') = Len(messages) + 2
               => /\ messages'[Len(messages') - 1].role = "user"
                  /\ messages'[Len(messages')].isError
                  /\ Len(calls') = Len(calls) + 1
                  /\ calls'[Len(calls')].state = "thrown"
          /\ (\E c \in DOMAIN calls : calls'[c].fullResponse # calls[c].fullResponse)
               => messages' = messages
          /\ (Len(messages') = Len(messages) + 1 /\ messages'[Len(messages')].role = "model")
               => \E c \in DOMAIN calls :
                    calls[c].state = "streaming" /\ calls'[c].state # "streaming"]_vars

\* C17 witness: during the second send of a conversation the text "H" has been
\* streamed and is in no turn; the three turns are those of the first send and the
\* user's second
C17_Witness ==
  /\ nBack = 0
  /\ Len(calls) = 2
  /\ calls[1].state = "returned"
  /\ calls[2].state = "streaming" /\ calls[2].attached
  /\ calls[2].fullResponse = <<"H">>
  /\ streamingContent = <<"H">>
  /\ Len(messages) = 3
  /\ messages[2].role = "model" /\ messages[2].text = <<>>
  /\ messages[3].role = "user"

\* C18: no two turns of the conversation have the same id.
C18_TurnIdsUnique ==
  \A i, j \in DOMAIN messages : i # j => messages[i].id # messages[j].id

\* the entries of the log of session s before the m-th that carried the files of the
\* same document set and whose send completed successfully
FilesDelivered(s, m) ==
  {n \in 1..(m - 1) :
     /\ sessionLog[s][n].doc = sessionLog[s][m].doc
     /\ sessionLog[s][n].files # <<>>
     /\ calls[sessionLog[s][n].call].state = "returned"}

\* C19: every text-only message dispatched for a document set follows, on its session,
\* a send for that document set that carried the files and completed successfully.
C19_TextOnlyAfterFilesDelivered ==
  \A s \in DOMAIN sessionLog :
    \A m \in DOMAIN sessionLog[s] :
      sessionLog[s][m].files = <<>> => FilesDelivered(s, m) # {}

\* C20: while the application is in the chat state the current file set is non-empty
\* and no step changes it.
C20_FileSetFixedInChat ==
  [][(appState = "CHAT" /\ appState' = "CHAT")
       => (currentFiles # <<>> /\ currentFiles' = currentFiles)]_vars
====
